---- MODULE Spec2Model ----
(***************************************************************************)
(* Model of language_colors (src/src/main.rs): the Color type (parse from  *)
(* a web colour, format as a web colour, Euclidean distance in f64) and    *)
(* the greedy nearest-colour chain that main builds over the name-ordered  *)
(* map of language colours.                                                *)
(*                                                                         *)
(* Three specifications share the module:                                  *)
(*   Spec      - main's chain loop (lines 88-123) over a ColorSet          *)
(*   ParseSpec - from_webcolor, as_webcolor, from_webcolor on one string   *)
(*   DistSpec  - euclidean_distance between three colours                  *)
(* The fetch, the YAML parse and the HTML output of main are left out.     *)
(***************************************************************************)
EXTENDS Integers, Sequences, FiniteSets, TLC

\* ------------------------------------------------------------------ bounds

\* number of distinct language names the ColorSet can hold
MaxLangs == 4
\* the channels of a ColorSet colour are naturals that sum to at most
\* MaxChannel; the red channel of a DistSpec colour ranges over 0..MaxChannel
MaxChannel == 1
\* green and blue of a DistSpec colour range over 0..MaxDistChannel
MaxDistChannel == 4
\* longest input string handed to from_webcolor
MaxLen == 7

\* ------------------------------------------------------- f64 (IEEE double)
\* A positive double is [m, e] with value m * 2^(e - 52) and 2^52 <= m < 2^53;
\* m is a 64-bit natural in four little-endian limbs (TLC integers are 32 bit).
\* Zero is [m = 0, e = 0].  Only the non-negative finite doubles are needed:
\* the values are square roots of integers and sums of two of them.

LimbBase == 2 ^ 16
MantissaBits == 53

BigZero == <<0, 0, 0, 0>>
\* 2^52, the hidden bit, and 2^53, the first value that needs 54 bits
BigHidden == <<0, 0, 0, 16>>
BigOverflow == <<0, 0, 0, 32>>

BigFromInt(n) == <<n % LimbBase, n \div LimbBase, 0, 0>>

BigShl1(x) ==
    LET t1 == 2 * x[1]
        t2 == 2 * x[2] + (t1 \div LimbBase)
        t3 == 2 * x[3] + (t2 \div LimbBase)
        t4 == 2 * x[4] + (t3 \div LimbBase)
    IN  <<t1 % LimbBase, t2 % LimbBase, t3 % LimbBase, t4 % LimbBase>>

BigShr1(x) ==
    <<(x[1] \div 2) + (x[2] % 2) * (LimbBase \div 2),
      (x[2] \div 2) + (x[3] % 2) * (LimbBase \div 2),
      (x[3] \div 2) + (x[4] % 2) * (LimbBase \div 2),
      x[4] \div 2>>

BigAdd(x, y) ==
    LET t1 == x[1] + y[1]
        t2 == x[2] + y[2] + (t1 \div LimbBase)
        t3 == x[3] + y[3] + (t2 \div LimbBase)
        t4 == x[4] + y[4] + (t3 \div LimbBase)
    IN  <<t1 % LimbBase, t2 % LimbBase, t3 % LimbBase, t4 % LimbBase>>

\* x - y for x >= y (\div rounds down, so a negative limb borrows)
BigSub(x, y) ==
    LET t1 == x[1] - y[1]
        t2 == x[2] - y[2] + (t1 \div LimbBase)
        t3 == x[3] - y[3] + (t2 \div LimbBase)
        t4 == x[4] - y[4] + (t3 \div LimbBase)
    IN  <<t1 % LimbBase, t2 % LimbBase, t3 % LimbBase, t4 % LimbBase>>

BigLt(x, y) ==
    \/ x[4] < y[4]
    \/ x[4] = y[4] /\ x[3] < y[3]
    \/ x[4] = y[4] /\ x[3] = y[3] /\ x[2] < y[2]
    \/ x[4] = y[4] /\ x[3] = y[3] /\ x[2] = y[2] /\ x[1] < y[1]

BigOdd(x) == x[1] % 2 = 1

F64Zero == [m |-> BigZero, e |-> 0]

\* round to nearest, ties to even: m holds 53 bits, guard is the next bit,
\* sticky says whether anything non-zero lies below the guard bit
F64Round(m, e, guard, sticky) ==
    LET up == guard /\ (sticky \/ BigOdd(m))
        m1 == IF up THEN BigAdd(m, BigFromInt(1)) ELSE m
    IN  IF m1 = BigOverflow THEN [m |-> BigHidden, e |-> e + 1]
                            ELSE [m |-> m1, e |-> e]

\* the base-4 digits of n >= 1, most significant first
RECURSIVE Base4(_)
Base4(n) == IF n < 4 THEN <<n>> ELSE Append(Base4(n \div 4), n % 4)

\* digit-by-digit binary square root: one result bit per base-4 digit of the
\* radicand, MantissaBits + 1 bits in all (53 and the guard bit)
RECURSIVE SqrtBits(_, _, _, _)
SqrtBits(digits, i, root, rem) ==
    IF i > MantissaBits + 1 THEN [root |-> root, rem |-> rem]
    ELSE LET pair == IF i <= Len(digits) THEN digits[i] ELSE 0
             r2 == BigAdd(BigShl1(BigShl1(rem)), BigFromInt(pair))
             trial == BigAdd(BigShl1(BigShl1(root)), BigFromInt(1))
         IN  IF BigLt(r2, trial)
             THEN SqrtBits(digits, i + 1, BigShl1(root), r2)
             ELSE SqrtBits(digits, i + 1, BigAdd(BigShl1(root), BigFromInt(1)),
                           BigSub(r2, trial))

\* (n as f64).sqrt() for an integer 0 <= n < 2^31: the cast is exact and sqrt
\* is correctly rounded
F64SqrtOfInt(n) ==
    IF n = 0 THEN F64Zero
    ELSE LET digits == Base4(n)
             st == SqrtBits(digits, 1, BigZero, BigZero)
         IN  F64Round(BigShr1(st.root), Len(digits) - 1, BigOdd(st.root),
                      st.rem # BigZero)

\* x < y on non-negative doubles
F64Lt(x, y) ==
    IF x.m = BigZero THEN y.m # BigZero
    ELSE IF y.m = BigZero THEN FALSE
    ELSE x.e < y.e \/ (x.e = y.e /\ BigLt(x.m, y.m))

\* Option<T>: None, or Some(x)
None == <<>>
Some(x) == <<x>>

\* ------------------------------------------------------------------- Color

Color(r, g, b) == [red |-> r, green |-> g, blue |-> b]

\* the square roots the model takes, computed once
MaxSquare == 3 * MaxChannel * MaxChannel + 3 * MaxDistChannel * MaxDistChannel
SqrtTable == [n \in 0..MaxSquare |-> F64SqrtOfInt(n)]

\* a distance that leaves the green channel out
euclidean_distance_no_green(self, other) ==
    LET p_red == (other.red - self.red) * (other.red - self.red)
        p_blue == (other.blue - self.blue) * (other.blue - self.blue)
    IN  SqrtTable[p_red + p_blue]

euclidean_distance(self, other) ==
    LET p_red == (other.red - self.red) * (other.red - self.red)
        p_green == (other.green - self.green) * (other.green - self.green)
        p_blue == (other.blue - self.blue) * (other.blue - self.blue)
    IN  SqrtTable[p_red + p_green + p_blue]

\* the colours of the ColorSets of Spec
Palette ==
    {Color(r, g, b) : r \in 0..MaxChannel, g \in 0..MaxChannel, b \in 0..MaxChannel}
        \ {c \in [red : 0..MaxChannel, green : 0..MaxChannel, blue : 0..MaxChannel] :
              c.red + c.green + c.blue > MaxChannel}

\* the colours of DistSpec
DistPalette ==
    [red : 0..MaxChannel, green : 0..MaxDistChannel, blue : 0..MaxDistChannel]

\* ------------------------------------------- from_webcolor / as_webcolor
\* A string is a sequence of one-character strings.

HexLower == <<"0", "1", "2", "3", "4", "5", "6", "7", "8", "9",
              "a", "b", "c", "d", "e", "f">>
HexUpper == <<"0", "1", "2", "3", "4", "5", "6", "7", "8", "9",
              "A", "B", "C", "D", "E", "F">>

\* char::to_digit(16): the digit's value, for 0-9, a-f and A-F alone
IsHexDigit(ch) == \E i \in 1..16 : HexLower[i] = ch \/ HexUpper[i] = ch
HexValue(ch) == (CHOOSE i \in 1..16 : HexLower[i] = ch \/ HexUpper[i] = ch) - 1

\* the value of a non-empty string of hex digits
RECURSIVE HexDigitsValue(_)
HexDigitsValue(digits) ==
    IF Len(digits) = 1 THEN HexValue(digits[1])
    ELSE 16 * HexDigitsValue(SubSeq(digits, 1, Len(digits) - 1))
         + HexValue(digits[Len(digits)])

\* i64::from_str_radix(src, 16) on a string of at most two characters (no
\* overflow): None is Err.  The empty string and a lone sign are errors, one
\* leading '+' or '-' is a sign, every other character must be a hex digit.
from_str_radix(src) ==
    IF src = <<>> THEN None
    ELSE IF Len(src) = 1 /\ src[1] \in {"+", "-"} THEN None
    ELSE LET signed == src[1] \in {"+", "-"}
             digits == IF signed THEN Tail(src) ELSE src
         IN  IF \E i \in 1..Len(digits) : ~IsHexDigit(digits[i]) THEN None
             ELSE IF src[1] = "-" THEN Some(0 - HexDigitsValue(digits))
             ELSE Some(HexDigitsValue(digits))

\* str::trim_start_matches("#"): every leading '#' goes
RECURSIVE trim_start_matches(_)
trim_start_matches(s) ==
    IF s # <<>> /\ Head(s) = "#" THEN trim_start_matches(Tail(s)) ELSE s

\* slice::chunks(2): consecutive pairs, the last chunk one character long
\* when the length is odd
RECURSIVE chunks(_)
chunks(chars) ==
    IF chars = <<>> THEN <<>>
    ELSE IF Len(chars) = 1 THEN <<chars>>
    ELSE <<SubSeq(chars, 1, 2)>> \o chunks(SubSeq(chars, 3, Len(chars)))

\* char_array_to_string: a fold that pushes every char onto an empty String
RECURSIVE char_array_to_string(_)
char_array_to_string(chars) ==
    IF chars = <<>> THEN <<>>
    ELSE Append(char_array_to_string(SubSeq(chars, 1, Len(chars) - 1)),
                chars[Len(chars)])

\* Color::from_webcolor: Some(colour), or None when one of the unwraps panics
\* (chunks.next() is None, or from_str_radix returned Err)
from_webcolor(color) ==
    LET cs == chunks(trim_start_matches(color))
        red == IF Len(cs) >= 1 THEN from_str_radix(char_array_to_string(cs[1])) ELSE None
        green == IF Len(cs) >= 2 THEN from_str_radix(char_array_to_string(cs[2])) ELSE None
        blue == IF Len(cs) >= 3 THEN from_str_radix(char_array_to_string(cs[3])) ELSE None
    IN  IF red = None \/ green = None \/ blue = None THEN None
        ELSE Some(Color(red[1], green[1], blue[1]))

\* the upper-case hex digits of v >= 0, at least one
RECURSIVE UpperHex(_)
UpperHex(v) ==
    IF v < 16 THEN <<HexUpper[v + 1]>>
    ELSE Append(UpperHex(v \div 16), HexUpper[(v % 16) + 1])

\* the k low hex digits of v's two's complement (\div rounds down)
RECURSIVE TwosComplementHex(_, _)
TwosComplementHex(v, k) ==
    IF k = 0 THEN <<>>
    ELSE Append(TwosComplementHex(v \div 16, k - 1), HexUpper[(v % 16) + 1])

\* hex digits of an i64
I64HexDigits == 16

\* a {:X}: the digits without the zero padding
format_X(v) ==
    IF v < 0 THEN TwosComplementHex(v, I64HexDigits) ELSE UpperHex(v)

\* format!("{:02X}", v) for an i64: upper-case hex, zero-padded to two
\* digits; a negative value prints the 16 digits of its two's complement
format_02X(v) ==
    LET digits == IF v < 0 THEN TwosComplementHex(v, I64HexDigits) ELSE UpperHex(v)
    IN  IF Len(digits) < 2 THEN <<"0">> \o digits ELSE digits

\* Color::as_webcolor
as_webcolor(self) ==
    <<"#">> \o format_02X(self.red) \o format_02X(self.green) \o format_02X(self.blue)

\* the characters of the input strings of ParseSpec
Chars == {"#", "0", "a", "F", "-", "+"}

\* the two malformed strings the specification names
NamedStrings == {<<"#", "1", "2", "G", "4", "5", "6">>, <<"#", "1", "2", "3">>}

\* --------------------------------------------------------------- variables

VARIABLES
    \* main, lines 79-123
    languages_colors, f_iter, f_lang, shortest_distance, shortest,
    used_languages, is_first_color, nearest_colors, pc, log,
    \* from_webcolor / as_webcolor on one input
    input, parsed, webcolor, reparsed, parse_pc,
    \* euclidean_distance on three colours
    col_a, col_b, col_c, d_ab, d_ba, d_ac, d_cb, dist_pc

chain_vars == <<languages_colors, f_iter, f_lang, shortest_distance,
                shortest, used_languages, is_first_color, nearest_colors, pc, log>>
parse_vars == <<input, parsed, webcolor, reparsed, parse_pc>>
dist_vars == <<col_a, col_b, col_c, d_ab, d_ba, d_ac, d_cb, dist_pc>>
vars == <<chain_vars, parse_vars, dist_vars>>

ChainIdle ==
    /\ languages_colors = <<>>
    /\ f_iter = <<>>
    /\ f_lang = 0
    /\ shortest_distance = F64Zero
    /\ shortest = None
    /\ used_languages = {}
    /\ is_first_color = TRUE
    /\ nearest_colors = <<>>
    /\ pc = "idle"
    /\ log = <<>>

ParseIdle ==
    /\ input = <<>>
    /\ parsed = None
    /\ webcolor = <<>>
    /\ reparsed = None
    /\ parse_pc = "idle"

DistIdle ==
    /\ col_a = Color(0, 0, 0)
    /\ col_b = Color(0, 0, 0)
    /\ col_c = Color(0, 0, 0)
    /\ d_ab = F64Zero
    /\ d_ba = F64Zero
    /\ d_ac = F64Zero
    /\ d_cb = F64Zero
    /\ dist_pc = "idle"

\* -------------------------------------------------------------------- Spec
\* main from line 79 on: languages_colors is a BTreeMap, iterated by name in
\* ascending order.  A name is the natural number that gives its place in
\* String's order among the names that can occur.

Names == 1..MaxLangs

Min(S) == CHOOSE x \in S : \A y \in S : x <= y

\* the keys of a BTreeMap in iteration order
RECURSIVE SortedSeq(_)
SortedSeq(S) == IF S = {} THEN <<>> ELSE <<Min(S)>> \o SortedSeq(S \ {Min(S)})

\* languages_colors is any map from names to colours; the loop has not begun
Init ==
    /\ ParseIdle
    /\ DistIdle
    /\ \E D \in SUBSET Names : languages_colors \in [D -> Palette]
    /\ f_iter = SortedSeq(DOMAIN languages_colors)
    /\ f_lang = 0
    /\ shortest_distance = F64Zero
    /\ shortest = None
    /\ used_languages = {}
    /\ is_first_color = TRUE
    /\ nearest_colors = <<>>
    /\ pc = "for_f"
    /\ log = <<>>

\* line 98: &f_lang == s_lang
is_self(f, s_lang) == f = s_lang

\* a test that finds no language used
is_used_never(s_lang) == FALSE

\* line 102: used_languages.contains(s_lang)
is_used(s_lang) == s_lang \in used_languages

\* a test that also replaces the running best on an equal distance
is_closer_or_equal(best, distance, best_distance) ==
    best = None \/ ~F64Lt(best_distance, distance)

\* a test that keeps the farther candidate
is_farther(best, distance, best_distance) ==
    best = None \/ F64Lt(best_distance, distance)

\* line 107: shortest.is_none() || distance < shortest_distance
is_closer(best, distance, best_distance) ==
    best = None \/ F64Lt(distance, best_distance)

\* line 97-111: the inner loop over the rest s_rest of the map's iterator,
\* from the running best: the from-language and the used languages are
\* passed over, every other language is measured and kept if it is closer
RECURSIVE inner_loop(_, _, _)
inner_loop(f, s_rest, best) ==
    IF s_rest = <<>> THEN best
    ELSE LET s_lang == Head(s_rest)
             s_color == languages_colors[s_lang]
             distance == euclidean_distance(languages_colors[f], s_color)
         IN  IF is_self(f, s_lang) THEN inner_loop(f, Tail(s_rest), best)
             ELSE IF is_used(s_lang) THEN inner_loop(f, Tail(s_rest), best)
             ELSE IF is_closer(best.shortest, distance, best.shortest_distance)
             THEN inner_loop(f, Tail(s_rest),
                             [shortest_distance |-> distance,
                              shortest |-> Some(<<s_lang, s_color>>)])
             ELSE inner_loop(f, Tail(s_rest), best)

\* line 93-111: the outer loop takes its next (f_lang, f_color), resets the
\* running best and runs the inner loop over the whole map.  The log entry
\* records the iteration: its from-language and used_languages as it begins.
Search ==
    /\ pc = "for_f"
    /\ f_iter # <<>>
    /\ f_lang' = Head(f_iter)
    /\ f_iter' = Tail(f_iter)
    /\ LET best == inner_loop(Head(f_iter), SortedSeq(DOMAIN languages_colors),
                              [shortest_distance |-> F64Zero, shortest |-> None])
       IN  /\ shortest_distance' = best.shortest_distance
           /\ shortest' = best.shortest
    /\ pc' = "push"
    /\ log' = Append(log, [f |-> Head(f_iter), used |-> used_languages,
                           found |-> None, pushed |-> <<>>, used_after |-> {},
                           finished |-> FALSE])
    /\ UNCHANGED <<languages_colors, used_languages, is_first_color,
                   nearest_colors, parse_vars, dist_vars>>

\* what line 113-122 append and mark used, given whether the anchor goes in
Pushed(first) ==
    (IF first THEN <<<<f_lang, languages_colors[f_lang]>>>> ELSE <<>>)
        \o (IF shortest # None THEN <<shortest[1]>> ELSE <<>>)
Marked(first) ==
    (IF first THEN {f_lang} ELSE {})
        \cup (IF shortest # None THEN {shortest[1][1]} ELSE {})

\* a Push that never clears is_first_color
Push_every_iteration ==
    /\ pc = "push"
    /\ used_languages' = used_languages \cup Marked(is_first_color)
    /\ nearest_colors' = nearest_colors \o Pushed(is_first_color)
    /\ pc' = "for_f"
    /\ log' = [log EXCEPT ![Len(log)] =
                  [@ EXCEPT !.found = shortest, !.pushed = Pushed(is_first_color),
                            !.used_after = used_languages', !.finished = TRUE]]
    /\ UNCHANGED <<languages_colors, f_iter, f_lang, shortest_distance,
                   shortest, is_first_color, parse_vars, dist_vars>>

\* a Push that appends the nearest entry before the anchor
Push_nearest_first ==
    /\ pc = "push"
    /\ used_languages' = used_languages \cup Marked(is_first_color)
    /\ nearest_colors' =
           nearest_colors
               \o (IF shortest # None THEN <<shortest[1]>> ELSE <<>>)
               \o (IF is_first_color THEN <<<<f_lang, languages_colors[f_lang]>>>>
                                     ELSE <<>>)
    /\ is_first_color' = FALSE
    /\ pc' = "for_f"
    /\ log' = [log EXCEPT ![Len(log)] =
                  [@ EXCEPT !.found = shortest, !.pushed = Pushed(is_first_color),
                            !.used_after = used_languages', !.finished = TRUE]]
    /\ UNCHANGED <<languages_colors, f_iter, f_lang, shortest_distance,
                   shortest, parse_vars, dist_vars>>

\* a Push that forgets to mark the nearest entry used
Push_unmarked ==
    /\ pc = "push"
    /\ used_languages' = used_languages \cup (IF is_first_color THEN {f_lang} ELSE {})
    /\ nearest_colors' = nearest_colors \o Pushed(is_first_color)
    /\ is_first_color' = FALSE
    /\ pc' = "for_f"
    /\ log' = [log EXCEPT ![Len(log)] =
                  [@ EXCEPT !.found = shortest, !.pushed = Pushed(is_first_color),
                            !.used_after = used_languages', !.finished = TRUE]]
    /\ UNCHANGED <<languages_colors, f_iter, f_lang, shortest_distance,
                   shortest, parse_vars, dist_vars>>

\* line 113-122, once the inner loop is through: on the first iteration the
\* from-language is marked used and appended; then the nearest entry, if one
\* was found, is marked used and appended
Push ==
    /\ pc = "push"
    /\ used_languages' = used_languages \cup Marked(is_first_color)
    /\ nearest_colors' = nearest_colors \o Pushed(is_first_color)
    /\ is_first_color' = FALSE
    /\ pc' = "for_f"
    /\ log' = [log EXCEPT ![Len(log)] =
                  [@ EXCEPT !.found = shortest, !.pushed = Pushed(is_first_color),
                            !.used_after = used_languages', !.finished = TRUE]]
    /\ UNCHANGED <<languages_colors, f_iter, f_lang, shortest_distance,
                   shortest, parse_vars, dist_vars>>

\* line 123: the outer loop is through
Finish ==
    /\ pc = "for_f"
    /\ f_iter = <<>>
    /\ pc' = "done"
    /\ UNCHANGED <<languages_colors, f_iter, f_lang, shortest_distance,
                   shortest, used_languages, is_first_color, nearest_colors, log,
                   parse_vars, dist_vars>>

Next == Search \/ Push \/ Finish

Spec == Init /\ [][Next]_vars

\* ------------------------------------------------------- claims on main

ColorSetNames == DOMAIN languages_colors
ChainNames == {nearest_colors[i][1] : i \in 1..Len(nearest_colors)}

\* the candidates of a logged iteration: every name but the from-language and
\* the names used as the iteration began
Candidates(entry) == ColorSetNames \ ({entry.f} \cup entry.used)

\* the distance from name f's colour to name s's colour
Distance(f, s) == euclidean_distance(languages_colors[f], languages_colors[s])

\* the candidates no other candidate is strictly closer than
Closest(entry) ==
    {s \in Candidates(entry) :
        \A t \in Candidates(entry) : ~F64Lt(Distance(entry.f, t), Distance(entry.f, s))}

\* what iteration k appended after the anchor
NearestAppended(k) == IF k = 1 THEN Tail(log[k].pushed) ELSE log[k].pushed

Finished == {k \in 1..Len(log) : log[k].finished}

\* the iteration Push has just completed: the log's last entry.  Every
\* iteration is the last entry in the state its Push leaves, and no action
\* changes an entry after that.
JustFinished == {k \in {Len(log)} : k > 0 /\ log[k].finished}

RECURSIVE AllPushed(_)
AllPushed(k) == IF k = 0 THEN <<>> ELSE AllPushed(k - 1) \o log[k].pushed

\* C1: when the loop is through, the Chain has exactly one entry for every
\* name of the ColorSet, paired with the ColorSet's colour for it: its length
\* is |ColorSet| (0 for the empty ColorSet), hence in [min(1,n), n], and no
\* name is repeated or foreign; while the loop runs no name is repeated
C1_ChainIsPermutation ==
    /\ Cardinality(ChainNames) = Len(nearest_colors)
    /\ ChainNames \subseteq ColorSetNames
    /\ \A i \in 1..Len(nearest_colors) :
           nearest_colors[i][2] = languages_colors[nearest_colors[i][1]]
    /\ pc = "done" =>
           /\ Len(nearest_colors) = Cardinality(ColorSetNames)
           /\ ChainNames = ColorSetNames

C1_Witness ==
    /\ pc = "done"
    /\ Cardinality(ColorSetNames) >= 3
    /\ Len(nearest_colors) >= 3
    /\ nearest_colors[2][1] > nearest_colors[3][1]

\* C2: iteration k has the k-th name in ascending order as its from-language
\* f; with candidates the names other than f that were not used as the
\* iteration began, it appends no nearest entry when there is no candidate,
\* and otherwise appends a candidate, with its colour, that no other
\* candidate is closer to f than
C2_NearestIsMinimum ==
    \A k \in JustFinished :
        LET entry == log[k]
        IN  /\ entry.f = SortedSeq(ColorSetNames)[k]
            /\ IF Candidates(entry) = {}
               THEN entry.found = None /\ NearestAppended(k) = <<>>
               ELSE /\ entry.found # None
                    /\ NearestAppended(k) = <<entry.found[1]>>
                    /\ entry.found[1][1] \in Closest(entry)
                    /\ entry.found[1][2] = languages_colors[entry.found[1][1]]

\* an iteration whose from-language is already in the Chain picks, among
\* candidates at different distances, a closest one that is not the first
\* candidate in name order; another iteration has no candidate
C2_Witness ==
    /\ pc = "done"
    /\ \E k \in Finished :
           /\ log[k].f \in log[k].used
           /\ Cardinality(Candidates(log[k])) >= 2
           /\ Closest(log[k]) # Candidates(log[k])
           /\ log[k].found # None
           /\ log[k].found[1][1] # Min(Candidates(log[k]))
    /\ \E k \in Finished : Candidates(log[k]) = {} /\ log[k].pushed = <<>>

\* C3: among several candidates at the minimum distance from f, the one whose
\* name comes first in ascending order is chosen
C3_TieBreakFirstName ==
    \A k \in JustFinished :
        Candidates(log[k]) # {} =>
            /\ log[k].found # None
            /\ log[k].found[1][1] = Min(Closest(log[k]))

\* two candidates tie at the minimum distance, a third is farther and has
\* the smallest name
C3_Witness ==
    \E k \in Finished :
        /\ Cardinality(Closest(log[k])) >= 2
        /\ Min(Candidates(log[k])) \notin Closest(log[k])
        /\ log[k].found # None
        /\ log[k].found[1][1] = Min(Closest(log[k]))
        /\ NearestAppended(k) = <<log[k].found[1]>>

\* C4: for a non-empty ColorSet the Chain's first entry is the name that
\* sorts first, with its colour, from the first Push on
C4_FirstIsAnchor ==
    (ColorSetNames # {} /\ (pc = "done" \/ nearest_colors # <<>>)) =>
        /\ nearest_colors # <<>>
        /\ nearest_colors[1] = <<Min(ColorSetNames), languages_colors[Min(ColorSetNames)]>>

\* the first name is not the smallest name there is, and its nearest entry
\* has another colour
C4_Witness ==
    /\ pc = "done"
    /\ Len(nearest_colors) >= 2
    /\ nearest_colors[1][1] = Min(ColorSetNames)
    /\ nearest_colors[1][1] > 1
    /\ nearest_colors[2][2] # nearest_colors[1][2]

\* C9: the first iteration marks its from-language used and appends it, and
\* then the nearest entry if one was found (two entries at most); a later
\* iteration neither appends nor marks its from-language: it appends the
\* nearest entry alone, if one was found (one entry at most).  The Chain is
\* what the iterations appended, in order.
C9_AnchorOnFirstOnly ==
    /\ pc \in {"for_f", "done"} => nearest_colors = AllPushed(Len(log))
    /\ \A k \in JustFinished :
           LET entry == log[k]
               nearest == IF entry.found = None THEN <<>> ELSE <<entry.found[1]>>
               marked == IF entry.found = None THEN {} ELSE {entry.found[1][1]}
           IN  /\ \A i \in 1..Len(nearest) : nearest[i][1] # entry.f
               /\ IF k = 1
                  THEN /\ entry.pushed = <<<<entry.f, languages_colors[entry.f]>>>> \o nearest
                       /\ entry.used_after = entry.used \cup {entry.f} \cup marked
                  ELSE /\ entry.pushed = nearest
                       /\ Len(entry.pushed) <= 1
                       /\ entry.used_after = entry.used \cup marked

\* the first iteration appended two entries, a later one appended one while
\* its from-language was not in the Chain
C9_Witness ==
    /\ pc = "done"
    /\ Len(log) >= 3
    /\ Len(log[1].pushed) = 2
    /\ \E k \in 2..Len(log) :
           /\ Len(log[k].pushed) = 1
           /\ log[k].f \notin log[k].used
           /\ log[k].f \notin log[k].used_after

\* C10: for a ColorSet of n >= 2 names exactly one iteration has no candidate
\* and appends nothing, it is the (n-1)-th or the n-th, every other iteration
\* after the first appends exactly one entry, and no name is missing from the
\* final Chain
C10_OneEmptyIteration ==
    (pc = "done" /\ Cardinality(ColorSetNames) >= 2) =>
        LET n == Cardinality(ColorSetNames)
            empty == {k \in 1..Len(log) : log[k].pushed = <<>>}
        IN  /\ Len(log) = n
            /\ Cardinality(empty) = 1
            /\ empty \subseteq {n - 1, n}
            /\ \A k \in empty : Candidates(log[k]) = {} /\ log[k].found = None
            /\ \A k \in (2..n) \ empty : Len(log[k].pushed) = 1
            /\ ChainNames = ColorSetNames

\* the iteration before the last is the empty one, and the last one appends
\* the name it left out
C10_Witness ==
    /\ pc = "done"
    /\ Cardinality(ColorSetNames) >= 3
    /\ log[Len(log) - 1].pushed = <<>>
    /\ Len(log[Len(log)].pushed) = 1
    /\ log[Len(log)].pushed[1][1] = log[Len(log) - 1].f

\* --------------------------------------------------------------- ParseSpec

ParseInit ==
    /\ ChainIdle
    /\ DistIdle
    /\ \E n \in 0..MaxLen : input \in [1..n -> Chars] \cup NamedStrings
    /\ parsed = None
    /\ webcolor = <<>>
    /\ reparsed = None
    /\ parse_pc = "start"

\* from_webcolor(input) returns a Color
ParseOk ==
    /\ parse_pc = "start"
    /\ from_webcolor(input) # None
    /\ parsed' = from_webcolor(input)
    /\ parse_pc' = "parsed"
    /\ UNCHANGED <<input, webcolor, reparsed, chain_vars, dist_vars>>

\* from_webcolor(input) panics
ParsePanic ==
    /\ parse_pc = "start"
    /\ from_webcolor(input) = None
    /\ parse_pc' = "panicked"
    /\ UNCHANGED <<input, parsed, webcolor, reparsed, chain_vars, dist_vars>>

\* as_webcolor on the parsed colour
Format ==
    /\ parse_pc = "parsed"
    /\ webcolor' = as_webcolor(parsed[1])
    /\ parse_pc' = "formatted"
    /\ UNCHANGED <<input, parsed, reparsed, chain_vars, dist_vars>>

\* from_webcolor on the formatted colour
Reparse ==
    /\ parse_pc = "formatted"
    /\ reparsed' = from_webcolor(webcolor)
    /\ parse_pc' = "reparsed"
    /\ UNCHANGED <<input, parsed, webcolor, chain_vars, dist_vars>>

ParseNext == ParseOk \/ ParsePanic \/ Format \/ Reparse

ParseSpec == ParseInit /\ [][ParseNext]_vars

\* ------------------------------------------- claims on the Color strings

\* the string without its optional leading '#'
StripOptionalHash(str) == IF str # <<>> /\ Head(str) = "#" THEN Tail(str) ELSE str

IsSixHexDigits(str) == Len(str) = 6 /\ \A i \in 1..6 : IsHexDigit(str[i])

\* the upper-case form of a character
UpperCaseOf(ch) ==
    IF \E i \in 1..16 : HexLower[i] = ch
    THEN HexUpper[CHOOSE i \in 1..16 : HexLower[i] = ch]
    ELSE ch

\* C5: from_webcolor returns no Color for an input that, after an optional
\* leading '#' is stripped, is not exactly six characters long or holds a
\* character outside 0-9, a-f, A-F
C5_MalformedInputFails ==
    (parse_pc # "start" /\ ~IsSixHexDigits(StripOptionalHash(input))) =>
        parse_pc = "panicked"

\* C6: a Color that from_webcolor returned is what from_webcolor returns on
\* its as_webcolor form
C6_ParseSerializeRoundTrip ==
    parse_pc = "reparsed" => reparsed = parsed

\* C7: for an input of exactly six hex digits in any letter case, with or
\* without a leading '#', from_webcolor returns a Color, and as_webcolor of it
\* is '#' followed by the six digits in upper case
C7_FormatParseIsUpperCase ==
    IsSixHexDigits(StripOptionalHash(input)) =>
        /\ parse_pc # "panicked"
        /\ parse_pc \in {"formatted", "reparsed"} =>
               webcolor = <<"#">> \o [i \in 1..6 |-> UpperCaseOf(StripOptionalHash(input)[i])]

\* an input with a leading '#', a lower-case digit and a channel below 16
C7_Witness ==
    /\ parse_pc = "formatted"
    /\ input = <<"#", "0", "a", "F", "a", "a", "0">>
    /\ webcolor = <<"#", "0", "A", "F", "A", "A", "0">>

\* ---------------------------------------------------------------- DistSpec

DistInit ==
    /\ ChainIdle
    /\ ParseIdle
    /\ col_a \in DistPalette
    /\ col_b \in DistPalette
    /\ col_c \in DistPalette
    /\ d_ab = F64Zero
    /\ d_ba = F64Zero
    /\ d_ac = F64Zero
    /\ d_cb = F64Zero
    /\ dist_pc = "start"

\* the four calls the metric laws speak of
Measure ==
    /\ dist_pc = "start"
    /\ d_ab' = euclidean_distance(col_a, col_b)
    /\ d_ba' = euclidean_distance(col_b, col_a)
    /\ d_ac' = euclidean_distance(col_a, col_c)
    /\ d_cb' = euclidean_distance(col_c, col_b)
    /\ dist_pc' = "measured"
    /\ UNCHANGED <<col_a, col_b, col_c, chain_vars, parse_vars>>

DistNext == Measure

DistSpec == DistInit /\ [][DistNext]_vars

\* -------------------------------------------- claims on euclidean_distance

\* The triangle inequality adds two distances; the program itself never
\* adds doubles.
RECURSIVE BigShl(_, _)
BigShl(x, k) == IF k = 0 THEN x ELSE BigShl(BigShl1(x), k - 1)

RECURSIVE F64Normalize(_, _, _, _)
F64Normalize(s, e, guard, sticky) ==
    IF BigLt(s, BigOverflow) THEN F64Round(s, e, guard, sticky)
    ELSE F64Normalize(BigShr1(s), e + 1, BigOdd(s), sticky \/ guard)

\* x + y on non-negative doubles whose exponents differ by at most 10 (the
\* exact sum then fits the four limbs), rounded to nearest even
F64Add(x, y) ==
    IF x.m = BigZero THEN y
    ELSE IF y.m = BigZero THEN x
    ELSE LET hi == IF x.e >= y.e THEN x ELSE y
             lo == IF x.e >= y.e THEN y ELSE x
         IN  F64Normalize(BigAdd(BigShl(hi.m, hi.e - lo.e), lo.m), lo.e,
                          FALSE, FALSE)

\* the double next above a non-negative double (above zero: the least
\* subnormal, 2^-1074)
F64NextUp(x) ==
    IF x.m = BigZero THEN [m |-> BigHidden, e |-> 0 - 1074]
    ELSE F64Round(x.m, x.e, TRUE, TRUE)

\* C8, as the specification states it: the distance is symmetric, not
\* negative, zero exactly for equal colours, and satisfies the triangle
\* inequality
C8_MetricLaws ==
    dist_pc = "measured" =>
        /\ d_ab = d_ba
        /\ ~F64Lt(d_ab, F64Zero)
        /\ (d_ab = F64Zero) <=> (col_a = col_b)
        /\ ~F64Lt(F64Add(d_ac, d_cb), d_ab)

\* C8, amended: the distance is symmetric, not negative, zero exactly for
\* equal colours, and at most the double next above the f64 sum of the
\* distances by way of a third colour
C8_MetricLawsUpToRounding ==
    dist_pc = "measured" =>
        /\ d_ab = d_ba
        /\ ~F64Lt(d_ab, F64Zero)
        /\ (d_ab = F64Zero) <=> (col_a = col_b)
        /\ ~F64Lt(F64NextUp(F64Add(d_ac, d_cb)), d_ab)

\* three distinct colours on a line whose f64 distances miss the triangle
\* inequality by the last place
C8_Witness ==
    /\ dist_pc = "measured"
    /\ col_a # col_b /\ col_a # col_c /\ col_c # col_b
    /\ F64Lt(F64Add(d_ac, d_cb), d_ab)
    /\ d_ab = F64NextUp(F64Add(d_ac, d_cb))

====
